---- MODULE Spec2Model ----
(***************************************************************************)
(* PolarStereoPlateManager<PixelGrayA<uint8>>::generate_mipmap_tile over a *)
(* transactional tile store (src/vw/Plate/PolarStereoPlateManager.cc).     *)
(* A tile is a tile_size x tile_size image of gray+alpha pixels; the store *)
(* is keyed by <<col, row, level, transaction>>.  One invocation is split  *)
(* at its store calls: four child reads, then at most one write_update.    *)
(***************************************************************************)
EXTENDS Integers, Sequences, FiniteSets, TLC

\* ------------------------------------------------------------- bounds
\* Half the tile side: the plate file's default_tile_size() is 2 * HalfTile.
HalfTile == 1
\* How many completed invocations with the same arguments are counted.
MaxRepeat == 2
\* How many leaf tiles the caller commits in one bottom-up run.
MaxLeafWrites == 2

\* ---------------------------------------------------------- constants
\* ChannelRange<uint8>::max()
ChannelMax == 255

\* the tile size written into georeference and transform_image
AssumedTileSize == 256

\* Vector2 test_points[5]
NumTestPoints == 5

VARIABLES
  store,      \* the plate file: <<col,row,level,tid>> -> tile
  pc,         \* per worker: position in generate_mipmap_tile
  args,       \* per worker: [col, row, level, tid, preblur] of the invocation
  k,          \* per worker: number of children already visited (j outer, i inner)
  super,      \* per worker: the 2*tile_size canvas
  new_tile,   \* per worker: <<>> or <<the reduced tile>>
  reads,      \* per worker: outcome of each child read of this invocation
  writes,     \* per worker: write_update calls issued by this invocation
  entry,      \* per worker: the store as it was when this invocation began
  prev,       \* per worker: <<>> or <<the first of the latest run of completed
              \* invocations with one and the same arguments>>
  base,       \* the store as the manager was handed it
  orch,       \* the caller: the level it is producing, the targets left at
              \* that level, whether it sequences bottom-up, its preblur,
              \* the leaf tiles it has committed
  mask,       \* PixelMask values: v1, v2, test = v1 + v2 once computed, the
              \* latest operation and the operands as they were before it
  pm          \* georeference / transform_image: the datum and the plate's tile
              \* size, the position in transform_image and its locals, the
              \* poles placed into the plate, the latest georeference calls

vars == <<store, pc, args, k, super, new_tile, reads, writes, entry, prev,
          base, orch, pm, mask>>

Workers == {1, 2}
Transactions == {1, 2}

\* ------------------------------------------------------- images, pixels
tile_size == 2 * HalfTile

Grid(n) == (0 .. n-1) \X (0 .. n-1)

\* A default-constructed PixelGrayA has v = 0 and a = 0.
DefaultPixel == [v |-> 0, a |-> 0]

IsTransparentPixel(p) == p.a = 0

\* is_transparent of an image: no pixel carries valid data.
IsTransparent(img) == \A p \in DOMAIN img : IsTransparentPixel(img[p])

\* (mutant) the canvas allocated opaque instead of default-constructed
OpaqueCanvas == [p \in Grid(2 * tile_size) |-> [v |-> 0, a |-> 255]]

\* (mutant) one canvas shared by all invocations (a static or member buffer)
SharedCanvas(w) == 1

\* `super` is a local of the invocation: each invocation has a canvas of its own
CanvasOf(w) == w

\* ImageView<PixelT> super(2*tile_size, 2*tile_size)
BlankCanvas == [p \in Grid(2 * tile_size) |-> DefaultPixel]

\* ----------------------------------------------------------- the store
Key(col, row, level, tid) == <<col, row, level, tid>>

Put(st, key, tile) ==
  [x \in (DOMAIN st) \cup {key} |-> IF x = key THEN tile ELSE st[x]]

\* The transactions at or before tid that hold a tile at this coordinate.
Holders(st, key) ==
  { t \in Transactions :
      t <= key[4] /\ Key(key[1], key[2], key[3], t) \in DOMAIN st }

Latest(S) == CHOOSE t \in S : \A u \in S : u <= t

\* PlateFile::read(tile, col, row, level, transaction_id, exact_transaction):
\* <<>> stands for TileNotFoundErr, <<tile>> for the tile read.
StoreRead(st, key, exact) ==
  IF exact
    THEN IF key \in DOMAIN st THEN <<st[key]>> ELSE <<>>
    ELSE IF Holders(st, key) = {} THEN <<>>
         ELSE <<st[Key(key[1], key[2], key[3], Latest(Holders(st, key)))]>>

\* ------------------------------------------------ generate_mipmap_tile
\* for j in 0..1 { for i in 0..1 { ... } }: the n-th child visited.
ChildI(n) == n % 2
ChildJ(n) == n \div 2

\* (mutant) i and j exchanged in the child's coordinates
ChildKeySwapped(a, i, j) == Key(2 * a.col + j, 2 * a.row + i, a.level + 1, a.tid)

\* The child read: (2*col+i, 2*row+j) at level+1 under transaction_id.
ChildKey(a, i, j) == Key(2 * a.col + i, 2 * a.row + j, a.level + 1, a.tid)

\* (mutant) the read issued without exact_transaction
ReadLatest == FALSE

\* The last argument of read(): exact_transaction.
ReadExact == TRUE

\* (mutant) the crop offsets exchanged: crop(super, tile_size*j, tile_size*i, ...)
PlaceTransposed(canvas, i, j, child) ==
  [p \in DOMAIN canvas |->
     IF /\ p[1] \in (tile_size * j) .. (tile_size * j + tile_size - 1)
        /\ p[2] \in (tile_size * i) .. (tile_size * i + tile_size - 1)
       THEN child[<<p[1] - tile_size * j, p[2] - tile_size * i>>]
       ELSE canvas[p]]

\* crop(super, tile_size*i, tile_size*j, tile_size, tile_size) = child
Place(canvas, i, j, child) ==
  [p \in DOMAIN canvas |->
     IF /\ p[1] \in (tile_size * i) .. (tile_size * i + tile_size - 1)
        /\ p[2] \in (tile_size * j) .. (tile_size * j + tile_size - 1)
       THEN child[<<p[1] - tile_size * i, p[2] - tile_size * j>>]
       ELSE canvas[p]]

\* (mutant) a kernel whose weights do not sum to one
KernelLopsided == <<1, 2>>

\* kernel[0] = kernel[1] = 0.5, as numerators over KernelDen
Kernel == <<1, 1>>
KernelDen == 2

\* (mutant) the filter's default origin, (size - 1) / 2, instead of 1
KernelOriginDefault == (Len(Kernel) - 1) \div 2

\* the origin arguments (1, 1) of separable_convolution_filter
KernelOrigin == 1

Side(img) == CHOOSE n \in 1 .. 64 : DOMAIN img = Grid(n)

\* ConstantEdgeExtension: a coordinate outside the image is clamped.
Clamp(x, n) == IF x < 0 THEN 0 ELSE IF x > n - 1 THEN n - 1 ELSE x

\* One pass of the convolution along x (dir = 1) or y (dir = 2) on channel
\* numerators:  out(x) = SUM_t kernel[t] * src(x + origin - t).
ConvolvePass(img, n, dir) ==
  [p \in Grid(n) |->
     LET at(t) == IF dir = 1
                    THEN img[<<Clamp(p[1] + KernelOrigin - t, n), p[2]>>]
                    ELSE img[<<p[1], Clamp(p[2] + KernelOrigin - t, n)>>]
     IN  [v |-> Kernel[1] * at(0).v + Kernel[2] * at(1).v,
          a |-> Kernel[1] * at(0).a + Kernel[2] * at(1).a]]

\* separable_convolution_filter(img, kernel, kernel, 1, 1, ConstantEdgeExtension())
\* evaluated in floating point, cast back to the uint8 channels on assignment.
SeparableConvolution(img) ==
  LET n  == Side(img)
      h  == ConvolvePass(img, n, 1)
      hv == ConvolvePass(h, n, 2)
  IN  [p \in Grid(n) |->
         [v |-> hv[p].v \div (KernelDen * KernelDen),
          a |-> hv[p].a \div (KernelDen * KernelDen)]]

\* subsample(img, f): pixel (x, y) is img(f*x, f*y); 1 + (n-1)/f pixels a side.
Subsample(img, f) ==
  LET n == Side(img)
  IN  [p \in Grid(1 + (n - 1) \div f) |-> img[<<f * p[1], f * p[2]>>]]

\* (mutant) the test on preblur inverted
ReduceInverted(canvas, preblur) ==
  IF ~preblur THEN Subsample(SeparableConvolution(canvas), 2)
              ELSE Subsample(canvas, 2)

\* if (preblur) new_tile = subsample(separable_convolution_filter(...), 2)
\* else         new_tile = subsample(super, 2)
Reduce(canvas, preblur) ==
  IF preblur THEN Subsample(SeparableConvolution(canvas), 2)
             ELSE Subsample(canvas, 2)

\* (mutant) the write issued whatever the tile holds
AlwaysWrite(tile) == TRUE

\* (mutant) the test on transparency inverted
WriteIfTransparent(tile) == IsTransparent(tile)

\* if (!is_transparent(new_tile)) write_update(...)
ShouldWrite(tile) == ~IsTransparent(tile)

\* (mutant) the write addressed with col and row exchanged
WriteKeyTransposed(a) == Key(a.row, a.col, a.level, a.tid)

\* (mutant) the write addressed with the first child's coordinates
WriteKeyChild(a) == Key(2 * a.col, 2 * a.row, a.level + 1, a.tid)

\* write_update(new_tile, col, row, level, transaction_id)
WriteKey(a) == Key(a.col, a.row, a.level, a.tid)

\* ------------------------------------------------------ inputs
FlatPixel == [v |-> 201, a |-> ChannelMax]

\* a wholly valid tile of one colour
Flat == [p \in Grid(tile_size) |-> FlatPixel]

\* every pixel has its own value; pixels at (even, even) carry no data
Holed ==
  [p \in Grid(tile_size) |->
     [v |-> 10 + p[1] + tile_size * p[2],
      a |-> IF p[1] % 2 = 0 /\ p[2] % 2 = 0 THEN 0 ELSE ChannelMax]]

LeafTiles == {Flat, Holed}

NoArgs == [col |-> 0, row |-> 0, level |-> 0, tid |-> 1, preblur |-> FALSE]

Targets == {<<1, 2, 2>>}

CallArgs ==
  { [col |-> t[1], row |-> t[2], level |-> t[3], tid |-> tid, preblur |-> b] :
      t \in Targets, tid \in Transactions, b \in BOOLEAN }

\* What the plate file may hold at one coordinate when the manager is handed it.
\* Each entry is the set of <<transaction, tile>> versions at the coordinate.
Slot == { {}, {<<1, Flat>>}, {<<2, Flat>>}, {<<1, Holed>>, <<2, Flat>>} }

\* the children of target <<1, 2, 2>>
ChildCoords == {<<2 + i, 4 + j, 3>> : i \in 0 .. 1, j \in 0 .. 1}

StoreOf(f) ==
  LET vers == { <<c, e>> : c \in DOMAIN f, e \in UNION {f[d] : d \in DOMAIN f} }
      held == { x \in vers : x[2] \in f[x[1]] }
      keys == { Key(x[1][1], x[1][2], x[1][3], x[2][1]) : x \in held }
      tileAt(key) ==
        (CHOOSE x \in held :
           Key(x[1][1], x[1][2], x[1][3], x[2][1]) = key)[2][2]
  IN  [key \in keys |-> tileAt(key)]

InitStores == { StoreOf(f) : f \in [ChildCoords -> Slot] }

\* ------------------------------------------------------- real arithmetic
\* doubles are modelled as exact fractions [n, d] in lowest terms, d > 0
RECURSIVE GCD(_, _)
GCD(a, b) == IF b = 0 THEN a ELSE GCD(b, a % b)

Rat(n, d) == [n |-> n \div GCD(n, d), d |-> d \div GCD(n, d)]

RatInv(p) == [n |-> p.d, d |-> p.n]

RatNeg(p) == [n |-> 0 - p.n, d |-> p.d]

RatMul(p, q) ==
  LET g1 == GCD(p.n, q.d)
      g2 == GCD(q.n, p.d)
  IN  [n |-> (p.n \div g1) * (q.n \div g2), d |-> (p.d \div g2) * (q.d \div g1)]

\* a/b < c/d for a, c >= 0 and b, d > 0, by continued fractions
RECURSIVE Less(_, _, _, _)
Less(a, b, c, d) ==
  IF a \div b # c \div d THEN a \div b < c \div d
  ELSE IF c % d = 0 THEN FALSE
  ELSE IF a % b = 0 THEN TRUE
  ELSE Less(d, c % d, b, a % b)

RatLess(p, q) == Less(p.n, p.d, q.n, q.d)

RatLeq(p, q) == ~RatLess(q, p)

\* pow(2, level)
Pow2(level) == IF level >= 0 THEN Rat(2 ^ level, 1) ELSE Rat(1, 2 ^ (0 - level))

\* PixelMask<PixelGray<uint8> > v: default-constructed, value 0 and invalid
DefaultMask == [v |-> 0, valid |-> 0]

\* the PixelMask values while none is modelled
NoMask == [v1 |-> DefaultMask, v2 |-> DefaultMask, test |-> <<>>,
           op |-> "none", old |-> <<>>]

\* the record of georeference / transform_image while neither is modelled
NoCall ==
  [tile |-> AssumedTileSize, datum |-> 1, pc |-> "idle", i |-> 0,
   sample |-> <<>>, north_count |-> 0, is_north |-> FALSE,
   requested |-> Rat(0, 1), level |-> 0, output_georef |-> <<>>,
   first |-> 0, poles |-> {}, last |-> <<>>, before |-> <<>>]

\* ------------------------------------------------------ the state machine
\* the caller's record while no bottom-up run is modelled
NoOrch == [level |-> 0, todo |-> {}, ordered |-> TRUE, blur |-> FALSE, leaves |-> 0]

Init ==
  /\ store \in InitStores
  /\ pc = [w \in Workers |-> "idle"]
  /\ args = [w \in Workers |-> NoArgs]
  /\ k = [w \in Workers |-> 0]
  /\ super = [w \in Workers |-> BlankCanvas]
  /\ new_tile = [w \in Workers |-> <<>>]
  /\ reads = [w \in Workers |-> <<>>]
  /\ writes = [w \in Workers |-> 0]
  /\ entry = [w \in Workers |-> <<>>]
  /\ prev = [w \in Workers |-> <<>>]
  /\ base = store
  /\ orch = NoOrch
  /\ pm = NoCall
  /\ mask = NoMask

\* entry of generate_mipmap_tile: the canvas is allocated
Begin(w, a) ==
  /\ pc[w] \in {"idle", "done", "aborted"}
  /\ pc' = [pc EXCEPT ![w] = "read"]
  /\ args' = [args EXCEPT ![w] = a]
  /\ k' = [k EXCEPT ![w] = 0]
  /\ super' = [super EXCEPT ![CanvasOf(w)] = BlankCanvas]
  /\ new_tile' = [new_tile EXCEPT ![w] = <<>>]
  /\ reads' = [reads EXCEPT ![w] = <<>>]
  /\ writes' = [writes EXCEPT ![w] = 0]
  /\ entry' = [entry EXCEPT ![w] = store]
  /\ prev' = [prev EXCEPT ![w] =
                IF @ # <<>> /\ @[1].args = a /\ pc[w] = "done" THEN @ ELSE <<>>]
  /\ UNCHANGED <<store, base, pm, mask>>

\* (mutant) catch (...) { /*Do Nothing*/ }
CaughtAll(outcome) == TRUE

\* catch (TileNotFoundErr &e) { /*Do Nothing*/ }: the outcomes the loop survives
Caught(outcome) == outcome = "notfound"

\* one iteration of the child loop, the read ending in `outcome`
Visit(w, outcome, r) ==
  /\ pc[w] = "read"
  /\ reads' = [reads EXCEPT ![w] = Append(@, outcome)]
  /\ IF outcome = "found" \/ Caught(outcome)
       THEN /\ super' = [super EXCEPT ![CanvasOf(w)] =
                           IF outcome = "found"
                             THEN Place(@, ChildI(k[w]), ChildJ(k[w]), r[1])
                             ELSE @]
            /\ k' = [k EXCEPT ![w] = @ + 1]
            /\ pc' = [pc EXCEPT ![w] = IF k[w] + 1 = 4 THEN "reduce" ELSE "read"]
       ELSE /\ pc' = [pc EXCEPT ![w] = "aborted"]
            /\ UNCHANGED <<super, k>>
  /\ UNCHANGED <<store, args, new_tile, writes, entry, prev, base, orch, pm, mask>>

\* the read returns a tile or throws TileNotFoundErr
ReadChild(w) ==
  LET r == StoreRead(store, ChildKey(args[w], ChildI(k[w]), ChildJ(k[w])),
                     ReadExact)
  IN  Visit(w, IF r = <<>> THEN "notfound" ELSE "found", r)

\* the read throws anything else (an I/O failure of the plate file)
ReadFails(w) == Visit(w, "error", <<>>)

\* the reduction, the transparency test and the write
Finish(w) ==
  /\ pc[w] = "reduce"
  /\ LET t == Reduce(super[CanvasOf(w)], args[w].preblur)
         st == IF ShouldWrite(t) THEN Put(store, WriteKey(args[w]), t) ELSE store
     IN  /\ new_tile' = [new_tile EXCEPT ![w] = <<t>>]
         /\ store' = st
         /\ writes' = [writes EXCEPT ![w] = IF ShouldWrite(t) THEN @ + 1 ELSE @]
         /\ prev' = [prev EXCEPT ![w] =
                       IF @ = <<>>
                         THEN <<[args |-> args[w], tile |-> t, store |-> st, n |-> 1]>>
                         ELSE <<[@[1] EXCEPT !.n = IF @ < MaxRepeat THEN @ + 1 ELSE @]>>]
  /\ pc' = [pc EXCEPT ![w] = "done"]
  /\ UNCHANGED <<args, k, super, reads, entry, base, orch, pm, mask>>

\* One caller invoking generate_mipmap_tile again and again on a plate file
\* that already holds tiles.
Call(w) == \E a \in CallArgs : Begin(w, a) /\ UNCHANGED orch

Next ==
  \/ Call(1)
  \/ ReadChild(1)
  \/ ReadFails(1)
  \/ Finish(1)

Spec == Init /\ [][Next]_vars

\* ------------------------------------------------ the whole invocation
\* The canvas after the child loop has run over store st without interruption.
ReadAll(st, a) ==
  LET visit(canvas, n) ==
        LET r == StoreRead(st, ChildKey(a, ChildI(n), ChildJ(n)), ReadExact)
        IN  IF r = <<>> THEN canvas ELSE Place(canvas, ChildI(n), ChildJ(n), r[1])
  IN  visit(visit(visit(visit(BlankCanvas, 0), 1), 2), 3)

\* generate_mipmap_tile run from entry to return with no other store activity
SynthesizeAll(st, a) ==
  LET t == Reduce(ReadAll(st, a), a.preblur)
  IN  IF ShouldWrite(t) THEN Put(st, WriteKey(a), t) ELSE st

\* ------------------------------------------- two invocations in parallel
\* Two workers, one invocation each, for distinct (col, row) of one level
\* under one transaction; their store calls interleave freely.
ParTargets == {<<0, 2, 2>>, <<1, 2, 2>>}

ParCoords == {<<c, 4, 3>> : c \in 0 .. 3} \cup {<<1, 5, 3>>, <<2, 5, 3>>}

\* what a child coordinate holds, when it holds a tile
ParTile(c) == IF c[1] % 2 = 0 THEN Flat ELSE Holed

ParStores ==
  { [key \in {Key(c[1], c[2], c[3], 1) : c \in S} |-> ParTile(key)] :
      S \in SUBSET ParCoords }

InitPar ==
  /\ store \in ParStores
  /\ pc = [w \in Workers |-> "idle"]
  /\ args = [w \in Workers |-> NoArgs]
  /\ k = [w \in Workers |-> 0]
  /\ super = [w \in Workers |-> BlankCanvas]
  /\ new_tile = [w \in Workers |-> <<>>]
  /\ reads = [w \in Workers |-> <<>>]
  /\ writes = [w \in Workers |-> 0]
  /\ entry = [w \in Workers |-> <<>>]
  /\ prev = [w \in Workers |-> <<>>]
  /\ base = store
  /\ orch = NoOrch
  /\ pm = NoCall
  /\ mask = NoMask

CallPar(w) ==
  /\ pc[w] = "idle"
  /\ \E t \in ParTargets, b \in BOOLEAN :
       /\ \A u \in Workers \ {w} :
            pc[u] # "idle" => <<args[u].col, args[u].row>> # <<t[1], t[2]>>
       /\ Begin(w, [col |-> t[1], row |-> t[2], level |-> t[3], tid |-> 1,
                    preblur |-> b])
  /\ UNCHANGED orch

NextPar ==
  \/ \E w \in Workers : CallPar(w)
  \/ \E w \in Workers : ReadChild(w)
  \/ \E w \in Workers : Finish(w)

SpecPar == InitPar /\ [][NextPar]_vars

\* ------------------------------------------------- the bottom-up caller
\* The caller commits leaf tiles at the finest level, then has every target
\* of each coarser level synthesized, level by level.  When orch.ordered it
\* commits no leaf of a level once the synthesis of the level above has begun;
\* otherwise leaves may still arrive.
OrderLeafCoords == {<<1, 4, 3>>, <<2, 4, 3>>, <<0, 5, 3>>, <<3, 5, 3>>}

OrderTargets == {<<0, 2, 2>>, <<1, 2, 2>>, <<0, 1, 1>>, <<0, 0, 0>>}

TopLevel == CHOOSE l \in {c[3] : c \in OrderLeafCoords} : TRUE

TargetsAt(l) == {t \in OrderTargets : t[3] = l}

Running(w) == pc[w] \in {"read", "reduce"}

InitCaller(ordered) ==
  /\ store = <<>>
  /\ pc = [w \in Workers |-> "idle"]
  /\ args = [w \in Workers |-> NoArgs]
  /\ k = [w \in Workers |-> 0]
  /\ super = [w \in Workers |-> BlankCanvas]
  /\ new_tile = [w \in Workers |-> <<>>]
  /\ reads = [w \in Workers |-> <<>>]
  /\ writes = [w \in Workers |-> 0]
  /\ entry = [w \in Workers |-> <<>>]
  /\ prev = [w \in Workers |-> <<>>]
  /\ base = store
  /\ \E b \in BOOLEAN :
       orch = [level |-> TopLevel, todo |-> {}, ordered |-> ordered, blur |-> b,
               leaves |-> 0]
  /\ pm = NoCall
  /\ mask = NoMask

InitOrder == InitCaller(TRUE)

\* the caller commits the leaf tile of coordinate c
WriteLeaf(c) ==
  /\ orch.leaves < MaxLeafWrites
  /\ orch.ordered => orch.level >= c[3]
  /\ store' = Put(store, Key(c[1], c[2], c[3], 1), ParTile(c))
  /\ orch' = [orch EXCEPT !.leaves = @ + 1]
  /\ UNCHANGED <<pc, args, k, super, new_tile, reads, writes, entry, prev, base, pm, mask>>

\* the caller hands a target of the level it is producing to a free worker
Dispatch(w, t) ==
  /\ t \in orch.todo
  /\ Begin(w, [col |-> t[1], row |-> t[2], level |-> t[3], tid |-> 1,
               preblur |-> orch.blur])
  /\ orch' = [orch EXCEPT !.todo = @ \ {t}]

\* every target of the level is done: the caller moves one level up
Advance ==
  /\ orch.level > 0
  /\ orch.todo = {}
  /\ \A w \in Workers : ~Running(w)
  /\ orch' = [orch EXCEPT !.level = @ - 1, !.todo = TargetsAt(orch.level - 1)]
  /\ UNCHANGED <<store, pc, args, k, super, new_tile, reads, writes, entry,
                 prev, base, pm, mask>>

NextOrder ==
  \/ \E c \in OrderLeafCoords : WriteLeaf(c)
  \/ \E w \in Workers, t \in OrderTargets : Dispatch(w, t)
  \/ Advance
  \/ \E w \in Workers : ReadChild(w)
  \/ \E w \in Workers : Finish(w)

SpecOrder == InitOrder /\ [][NextOrder]_vars

\* The same caller without the ordering: leaves may be committed at any time.
InitFree == InitCaller(FALSE)

SpecFree == InitFree /\ [][NextOrder]_vars

\* ------------------------------------------------------ properties
\* Stated on the state alone: the children as the store held them when the
\* invocation began, the canvas, the reduced tile and the store now.
Valid(px) == px.a # 0
WhollyInvalid(img) == \A p \in DOMAIN img : ~Valid(img[p])
WhollyValid(img) == \A p \in DOMAIN img : Valid(img[p])

\* the store key of child (i, j) of the invocation with arguments a
KidKey(a, i, j) == <<2 * a.col + i, 2 * a.row + j, a.level + 1, a.tid>>
TargetKey(a) == <<a.col, a.row, a.level, a.tid>>

\* the tile_size block of the canvas at offset (i*tile_size, j*tile_size)
Quadrant(canvas, i, j) ==
  [q \in Grid(tile_size) |-> canvas[<<i * tile_size + q[1], j * tile_size + q[2]>>]]

BlankTile == [q \in Grid(tile_size) |-> [v |-> 0, a |-> 0]]

\* position of child (i, j) in the loop: j outer, i inner
Turn(i, j) == 2 * j + i + 1

Bit == {0, 1}

\* C1: a reduced tile that is wholly invalid is never written, so no wholly
\* invalid tile ever appears in a store that held none.
C1_NoWhollyInvalidTileStored ==
  /\ \A key \in DOMAIN store : ~WhollyInvalid(store[key])
  /\ \A w \in Workers :
       (pc[w] = "done" /\ WhollyInvalid(new_tile[w][1]))
         => (writes[w] = 0 /\ store = entry[w])

\* C1 witness: children were read, yet the reduced tile is wholly invalid.
C1_Witness ==
  \E w \in Workers :
    /\ pc[w] = "done"
    /\ \E n \in 1 .. 4 : reads[w][n] = "found"
    /\ WhollyInvalid(new_tile[w][1])

\* C2: the canvas starts wholly invalid, a not-found child leaves its quadrant
\* untouched, and when all four reads report not-found nothing is written.
C2_AllAbsentNoWrite ==
  \A w \in Workers :
    /\ (pc[w] = "read" /\ k[w] = 0) => WhollyInvalid(super[w])
    /\ \A i \in Bit, j \in Bit :
         (Turn(i, j) <= Len(reads[w]) /\ reads[w][Turn(i, j)] = "notfound")
           => Quadrant(super[w], i, j) = BlankTile
    /\ (pc[w] = "done" /\ reads[w] = <<"notfound", "notfound", "notfound", "notfound">>)
         => /\ WhollyInvalid(new_tile[w][1])
            /\ writes[w] = 0
            /\ store = entry[w]

\* C2 witness: a blurred synthesis whose four reads all reported not-found,
\* over a store that holds tiles (of another transaction).
C2_Witness ==
  \E w \in Workers :
    /\ pc[w] = "done"
    /\ args[w].preblur
    /\ reads[w] = <<"notfound", "notfound", "notfound", "notfound">>
    /\ store # <<>>

\* C3: child (2*col+i, 2*row+j) at level+1 lands unrotated in the canvas block
\* at (i*tile_size, j*tile_size), and no later child overwrites it.
C3_ChildrenInQuadrants ==
  \A w \in Workers : \A i \in Bit, j \in Bit :
    (Turn(i, j) <= Len(reads[w]) /\ reads[w][Turn(i, j)] = "found")
      => /\ KidKey(args[w], i, j) \in DOMAIN entry[w]
         /\ \A x \in 0 .. tile_size - 1, y \in 0 .. tile_size - 1 :
              super[w][<<i * tile_size + x, j * tile_size + y>>]
                = entry[w][KidKey(args[w], i, j)][<<x, y>>]

\* C3 witness: all four children read, the two off-diagonal ones different.
C3_Witness ==
  \E w \in Workers :
    /\ pc[w] = "reduce"
    /\ reads[w] = <<"found", "found", "found", "found">>
    /\ entry[w][KidKey(args[w], 1, 0)] # entry[w][KidKey(args[w], 0, 1)]
    /\ \E p \in Grid(tile_size), q \in Grid(tile_size) :
         p # q /\ entry[w][KidKey(args[w], 1, 0)][p] # entry[w][KidKey(args[w], 1, 0)][q]

\* C4: TileNotFound is skipped and synthesis goes on; any other read failure
\* ends the call with no write and the store as it was; a write follows only
\* four reads that each returned a tile or reported not-found.
C4_ReadFailureAborts ==
  \A w \in Workers :
    /\ writes[w] > 0
         => /\ Len(reads[w]) = 4
            /\ \A n \in 1 .. 4 : reads[w][n] \in {"found", "notfound"}
    /\ \A n \in 1 .. Len(reads[w]) :
         /\ reads[w][n] = "error"
              => /\ n = Len(reads[w])
                 /\ pc[w] = "aborted"
                 /\ writes[w] = 0
                 /\ new_tile[w] = <<>>
                 /\ store = entry[w]
         /\ reads[w][n] = "notfound" => (n < Len(reads[w]) \/ pc[w] # "aborted")
    /\ pc[w] = "aborted" => reads[w][Len(reads[w])] = "error"
    /\ pc[w] \in {"reduce", "done"} => Len(reads[w]) = 4

\* C4 witness: a call aborted by a failure after a not-found child was skipped.
C4_Witness ==
  \E w \in Workers :
    /\ pc[w] = "aborted"
    /\ Len(reads[w]) = 3
    /\ reads[w][1] = "notfound"
    /\ reads[w][2] = "found"

\* C5: every child read is exact: a quadrant holds the child committed under
\* exactly the invocation's transaction, and is blank when the coordinate holds
\* a tile only under another transaction.
C5_ExactTransactionOnly ==
  \A w \in Workers : \A i \in Bit, j \in Bit :
    Turn(i, j) <= Len(reads[w]) /\ reads[w][Turn(i, j)] # "error"
      => /\ KidKey(args[w], i, j) \in DOMAIN entry[w]
              => Quadrant(super[w], i, j) = entry[w][KidKey(args[w], i, j)]
         /\ KidKey(args[w], i, j) \notin DOMAIN entry[w]
              => /\ reads[w][Turn(i, j)] = "notfound"
                 /\ Quadrant(super[w], i, j) = BlankTile

\* C5 witness: a tile was written under transaction 2 while a child coordinate
\* held a tile under transaction 1 only.
C5_Witness ==
  \E w \in Workers : \E i \in Bit, j \in Bit :
    /\ pc[w] = "done"
    /\ args[w].tid = 2
    /\ writes[w] = 1
    /\ KidKey(args[w], i, j) \notin DOMAIN entry[w]
    /\ KidKey([args[w] EXCEPT !.tid = 1], i, j) \in DOMAIN entry[w]

\* C6: with one wholly valid child (i, j) and three absent, the written tile
\* is valid exactly on the half-size block at (i*tile_size/2, j*tile_size/2).
C6_OneChildOneQuadrant ==
  \A w \in Workers : \A i \in Bit, j \in Bit :
    ( /\ pc[w] = "done"
      /\ KidKey(args[w], i, j) \in DOMAIN entry[w]
      /\ WhollyValid(entry[w][KidKey(args[w], i, j)])
      /\ \A i2 \in Bit, j2 \in Bit :
           <<i2, j2>> # <<i, j>> => KidKey(args[w], i2, j2) \notin DOMAIN entry[w] )
      => /\ writes[w] = 1
         /\ TargetKey(args[w]) \in DOMAIN store
         /\ store[TargetKey(args[w])] = new_tile[w][1]
         /\ DOMAIN new_tile[w][1] = Grid(tile_size)
         /\ \A p \in Grid(tile_size) :
              Valid(new_tile[w][1][p])
                <=> /\ p[1] \in (i * (tile_size \div 2)) .. ((i + 1) * (tile_size \div 2) - 1)
                    /\ p[2] \in (j * (tile_size \div 2)) .. ((j + 1) * (tile_size \div 2) - 1)

\* C6 witness: a blurred synthesis over the single child (1, 0).
C6_Witness ==
  \E w \in Workers :
    /\ pc[w] = "done"
    /\ args[w].preblur
    /\ reads[w] = <<"notfound", "found", "notfound", "notfound">>
    /\ WhollyValid(entry[w][KidKey(args[w], 1, 0)])

\* C7: four children uniformly of one valid pixel value give a written tile
\* uniformly of that value, blurred or not, border pixels included.
C7_UniformStaysUniform ==
  \A w \in Workers :
    ( /\ pc[w] = "done"
      /\ \A i \in Bit, j \in Bit : KidKey(args[w], i, j) \in DOMAIN entry[w]
      /\ \E c \in {entry[w][KidKey(args[w], 0, 0)][<<0, 0>>]} :
           /\ Valid(c)
           /\ \A i \in Bit, j \in Bit : \A q \in Grid(tile_size) :
                entry[w][KidKey(args[w], i, j)][q] = c )
      => /\ writes[w] = 1
         /\ DOMAIN new_tile[w][1] = Grid(tile_size)
         /\ \A p \in Grid(tile_size) :
              new_tile[w][1][p] = entry[w][KidKey(args[w], 0, 0)][<<0, 0>>]
         /\ store[TargetKey(args[w])] = new_tile[w][1]

\* C7 witness: a blurred synthesis over four uniform children.
C7_Witness ==
  \E w \in Workers :
    /\ pc[w] = "done"
    /\ args[w].preblur
    /\ \A i \in Bit, j \in Bit :
         /\ KidKey(args[w], i, j) \in DOMAIN entry[w]
         /\ \A q \in Grid(tile_size) :
              entry[w][KidKey(args[w], i, j)][q] = [v |-> 201, a |-> 255]

\* C8: a second invocation with the same arguments over unchanged children
\* produces the same tile and leaves the store as the first one left it.
C8_RepeatIsIdempotent ==
  \A w \in Workers :
    (pc[w] = "done" /\ prev[w] # <<>> /\ prev[w][1].n >= 2)
      => /\ args[w] = prev[w][1].args
         /\ new_tile[w] = <<prev[w][1].tile>>
         /\ store = prev[w][1].store
         /\ entry[w] = prev[w][1].store

\* C8 witness: a repeated invocation that wrote a tile.
C8_Witness ==
  \E w \in Workers :
    /\ pc[w] = "done"
    /\ prev[w] # <<>>
    /\ prev[w][1].n >= 2
    /\ writes[w] = 1
    /\ args[w].preblur

\* the canvas the four children of `key` make, as store st holds them now
KidsCanvas(st, key) ==
  [p \in Grid(2 * tile_size) |->
     LET kid == <<2 * key[1] + (p[1] \div tile_size),
                  2 * key[2] + (p[2] \div tile_size), key[3] + 1, key[4]>>
     IN  IF kid \in DOMAIN st
           THEN st[kid][<<p[1] % tile_size, p[2] % tile_size>>]
           ELSE [v |-> 0, a |-> 0]]

\* the caller has had every level synthesized and no invocation is running
Finished ==
  /\ orch.level = 0
  /\ orch.todo = {}
  /\ \A w \in Workers : ~Running(w)

\* the tiles generate_mipmap_tile wrote that are not the reduction of their
\* children as the store holds them now
Stale ==
  { key \in DOMAIN store :
      /\ key[3] < TopLevel
      /\ store[key] # Reduce(KidsCanvas(store, key), orch.blur) }

\* C9: when the caller sequences bottom-up (no child is committed once the
\* synthesis of its parent level has begun), then after all levels have been
\* synthesized every synthesized tile is the reduction of the final state of
\* its four children.
C9_BottomUpParentsFresh == (orch.ordered /\ Finished) => Stale = {}

\* C9 witness: a bottom-up run that committed its leaves and wrote a tile at
\* each of the three coarser levels.
C9_Witness ==
  /\ orch.ordered
  /\ Finished
  /\ orch.leaves = MaxLeafWrites
  /\ \A l \in 0 .. 2 : \E key \in DOMAIN store : key[3] = l

\* C9, the unordered case: a run in which a leaf was committed after its
\* parent level had been synthesized can end with a stale parent.
C9_StaleWithoutOrdering == ~orch.ordered /\ Finished /\ Stale # {}

\* C10: two invocations for distinct (col, row) of one level under one
\* transaction, interleaved in any way, leave the store as running them one
\* after the other, in either order, leaves it.
C10_ParallelEqualsSequential ==
  (pc[1] = "done" /\ pc[2] = "done")
    => /\ store = SynthesizeAll(SynthesizeAll(base, args[1]), args[2])
       /\ store = SynthesizeAll(SynthesizeAll(base, args[2]), args[1])

\* C10 witness: both invocations began before either wrote, and both wrote.
C10_Witness ==
  /\ pc[1] = "done" /\ pc[2] = "done"
  /\ entry[1] = base /\ entry[2] = base
  /\ writes[1] = 1 /\ writes[2] = 1
  /\ new_tile[1] # new_tile[2]

\* C11: an invocation's result depends on nothing but its four children at
\* level+1 under its transaction, and the only store entry it may change is
\* (col, row, level) under that transaction.
C11_ReadsFourWritesOne ==
  \A w \in Workers :
    pc[w] \in {"read", "reduce", "done", "aborted"}
      => /\ \A key \in (DOMAIN store) \cup (DOMAIN entry[w]) :
              key # <<args[w].col, args[w].row, args[w].level, args[w].tid>>
                => /\ key \in DOMAIN store
                   /\ key \in DOMAIN entry[w]
                   /\ store[key] = entry[w][key]
         /\ pc[w] # "done" => store = entry[w]
         /\ pc[w] = "done"
              => /\ new_tile[w][1]
                      = Reduce(KidsCanvas(entry[w], TargetKey(args[w])),
                               args[w].preblur)
                 /\ writes[w] <= 1
                 /\ writes[w] = 1
                      => /\ TargetKey(args[w]) \in DOMAIN store
                         /\ store[TargetKey(args[w])] = new_tile[w][1]
                 /\ writes[w] = 0 => store = entry[w]

\* C11 witness: an invocation wrote its tile while the store held tiles of
\* the other transaction and, before the call, an older tile at the target.
C11_Witness ==
  \E w \in Workers :
    /\ pc[w] = "done"
    /\ writes[w] = 1
    /\ TargetKey(args[w]) \in DOMAIN entry[w]
    /\ entry[w][TargetKey(args[w])] # store[TargetKey(args[w])]
    /\ \E key \in DOMAIN store : key[4] # args[w].tid

\* the 2x2 block of the canvas that output pixel p covers
Block(p) == {<<2 * p[1] + dx, 2 * p[2] + dy>> : dx \in Bit, dy \in Bit}

\* the child quadrant a canvas pixel lies in
QuadrantOf(c) == <<c[1] \div tile_size, c[2] \div tile_size>>

\* C20: the reduced tile is tile_size x tile_size; without preblur its pixel
\* (x, y) is canvas pixel (2x, 2y); with preblur it is the equal-weight
\* average (cast to the channel type) of the aligned block {2x,2x+1} x
\* {2y,2y+1}, which lies in one child quadrant.
C20_ReductionReference ==
  \A w \in Workers :
    pc[w] = "done"
      => /\ DOMAIN new_tile[w][1] = Grid(tile_size)
         /\ \A p \in Grid(tile_size) :
              /\ ~args[w].preblur
                   => new_tile[w][1][p] = super[w][<<2 * p[1], 2 * p[2]>>]
              /\ args[w].preblur
                   => /\ 4 * new_tile[w][1][p].v
                           <= super[w][<<2 * p[1], 2 * p[2]>>].v
                              + super[w][<<2 * p[1] + 1, 2 * p[2]>>].v
                              + super[w][<<2 * p[1], 2 * p[2] + 1>>].v
                              + super[w][<<2 * p[1] + 1, 2 * p[2] + 1>>].v
                      /\ 4 * new_tile[w][1][p].v + 3
                           >= super[w][<<2 * p[1], 2 * p[2]>>].v
                              + super[w][<<2 * p[1] + 1, 2 * p[2]>>].v
                              + super[w][<<2 * p[1], 2 * p[2] + 1>>].v
                              + super[w][<<2 * p[1] + 1, 2 * p[2] + 1>>].v
                      /\ 4 * new_tile[w][1][p].a
                           <= super[w][<<2 * p[1], 2 * p[2]>>].a
                              + super[w][<<2 * p[1] + 1, 2 * p[2]>>].a
                              + super[w][<<2 * p[1], 2 * p[2] + 1>>].a
                              + super[w][<<2 * p[1] + 1, 2 * p[2] + 1>>].a
                      /\ 4 * new_tile[w][1][p].a + 3
                           >= super[w][<<2 * p[1], 2 * p[2]>>].a
                              + super[w][<<2 * p[1] + 1, 2 * p[2]>>].a
                              + super[w][<<2 * p[1], 2 * p[2] + 1>>].a
                              + super[w][<<2 * p[1] + 1, 2 * p[2] + 1>>].a
              /\ \A c \in Block(p), d \in Block(p) : QuadrantOf(c) = QuadrantOf(d)

\* C20 witness: a blurred reduction of a canvas holding a holed child next to
\* a flat one, so that averages are taken over unequal pixels.
C20_Witness ==
  \E w \in Workers :
    /\ pc[w] = "done"
    /\ args[w].preblur
    /\ reads[w][1] = "found"
    /\ reads[w][2] = "found"
    /\ \E p \in Grid(tile_size) :
         super[w][<<2 * p[1], 2 * p[2]>>] # super[w][<<2 * p[1] + 1, 2 * p[2]>>]

\* ------------------------------------------------------------ georeference
\* north_pole ? 90 : -90
Pole(north_pole) == IF north_pole THEN 90 ELSE 0 - 90

\* (mutant) the resolution grown linearly with the level
georeferenceLinear(level, north_pole, datum) ==
  LET pixels_per_meters == Rat(AssumedTileSize * (level + 1), 2 * datum)
  IN  [pole |-> Pole(north_pole), lon |-> 0, scale |-> 1,
       T00 |-> RatInv(pixels_per_meters),
       T11 |-> RatNeg(RatInv(pixels_per_meters)),
       T02 |-> 0 - datum, T12 |-> datum]

\* georeference(level, north_pole, datum); datum is its semi-major axis.
\* set_stereographic(pole, 0, 1.0, 0, 0); the affine transform has
\* (0,0) = 1/ppm, (1,1) = -1/ppm, (0,2) = -semi_major, (1,2) = +semi_major
georeference(level, north_pole, datum) ==
  LET pixels_per_meters ==
        RatMul(RatMul(Rat(AssumedTileSize, 1), Pow2(level)), Rat(1, 2 * datum))
  IN  [pole |-> Pole(north_pole), lon |-> 0, scale |-> 1,
       T00 |-> RatInv(pixels_per_meters),
       T11 |-> RatNeg(RatInv(pixels_per_meters)),
       T02 |-> 0 - datum, T12 |-> datum]

\* the finest level a descriptor is asked for
MaxGeoLevel == 3

GeoLevels == 0 .. MaxGeoLevel

\* semi-major axes in metres: the Moon, WGS84
Datums == {1737400, 6378137}

\* tile sizes a plate file can be configured with
StoreTileSizes == {AssumedTileSize, 2 * AssumedTileSize}

\* stores transform_image and georeference may run next to
PlateStores == {<<>>, [key \in {Key(0, 0, 0, 1)} |-> Flat]}

InitManager(tiles) ==
  /\ store \in PlateStores
  /\ pc = [w \in Workers |-> "idle"]
  /\ args = [w \in Workers |-> NoArgs]
  /\ k = [w \in Workers |-> 0]
  /\ super = [w \in Workers |-> BlankCanvas]
  /\ new_tile = [w \in Workers |-> <<>>]
  /\ reads = [w \in Workers |-> <<>>]
  /\ writes = [w \in Workers |-> 0]
  /\ entry = [w \in Workers |-> <<>>]
  /\ prev = [w \in Workers |-> <<>>]
  /\ base = store
  /\ orch = NoOrch
  /\ mask = NoMask
  /\ \E t \in tiles, d \in Datums :
       pm = [NoCall EXCEPT !.tile = t, !.datum = d]

\* a call of georeference; the two latest calls are remembered
Georeference(level, north_pole) ==
  /\ pm' = [pm EXCEPT
              !.before = pm.last,
              !.last = <<[level |-> level, north_pole |-> north_pole,
                          out |-> georeference(level, north_pole, pm.datum)]>>]
  /\ UNCHANGED <<store, pc, args, k, super, new_tile, reads, writes, entry,
                 prev, base, orch, mask>>

NextGeo == \E level \in GeoLevels, north_pole \in BOOLEAN :
             Georeference(level, north_pole)

InitGeo == InitManager(StoreTileSizes)

SpecGeo == InitGeo /\ [][NextGeo]_vars

\* C13: for every level and every tile size of the store, the descriptor's
\* pixel spacing is 2 * semi_major_axis / (tile_size * 2^level) with tile_size
\* the store's configured tile size, the x scale is +spacing, the y scale
\* -spacing and the origin (-semi_major_axis, +semi_major_axis).
C13_SpacingFromStoreTileSize ==
  pm.last # <<>>
    => /\ pm.last[1].out.T00 = Rat(2 * pm.datum, pm.tile * 2 ^ pm.last[1].level)
       /\ pm.last[1].out.T11 = RatNeg(pm.last[1].out.T00)
       /\ pm.last[1].out.T02 = 0 - pm.datum
       /\ pm.last[1].out.T12 = pm.datum

\* C14: the spacing at level + 1 is half the spacing at level, and the pole,
\* the central longitude, the scale factor and the origin are the same.
C14_SpacingHalvesPerLevel ==
  /\ pm.last # <<>>
  /\ pm.before # <<>>
  /\ pm.last[1].north_pole = pm.before[1].north_pole
  /\ pm.last[1].level = pm.before[1].level + 1
  => /\ pm.last[1].out.T00 = RatMul(pm.before[1].out.T00, Rat(1, 2))
     /\ pm.last[1].out.T11 = RatNeg(pm.last[1].out.T00)
     /\ pm.before[1].out.T11 = RatNeg(pm.before[1].out.T00)
     /\ pm.last[1].out.pole = pm.before[1].out.pole
     /\ pm.last[1].out.lon = pm.before[1].out.lon
     /\ pm.last[1].out.scale = pm.before[1].out.scale
     /\ pm.last[1].out.T02 = pm.before[1].out.T02
     /\ pm.last[1].out.T12 = pm.before[1].out.T12

\* C14 witness: descriptors of two successive levels above level 0 were built
\* for the south pole.
C14_Witness ==
  /\ pm.last # <<>>
  /\ pm.before # <<>>
  /\ ~pm.last[1].north_pole
  /\ ~pm.before[1].north_pole
  /\ pm.before[1].level >= 1
  /\ pm.last[1].level = pm.before[1].level + 1

\* --------------------------------------------------------- transform_image
\* (mutant) a sample on the equator counted as north
IsNorthLatInclusive(lat) == lat >= 0

\* georef.pixel_to_lonlat( test_points[i] )[1] > 0
IsNorthLat(lat) == lat > 0

\* bool is_north = north_count > 2
IsNorth(north_count) == north_count > 2

\* (mutant) no seed: the request starts from nothing
SeedUnset(datum) == Rat(0, 1)

\* requested_pixels_per_meters = 256.0 / (2 * semi_major_axis)
Seed(datum) == Rat(AssumedTileSize, 2 * datum)

\* least L >= 0 with n <= d * 2^L
RECURSIVE CeilUp(_, _)
CeilUp(n, d) == IF n <= d THEN 0 ELSE 1 + CeilUp(n, 2 * d)

\* greatest L >= 0 with n * 2^L <= d, for 0 < n <= d
RECURSIVE FloorDown(_, _)
FloorDown(n, d) == IF 2 * n > d THEN 0 ELSE 1 + FloorDown(2 * n, d)

\* (mutant) the logarithm rounded down
FloorLog2(q) ==
  IF q.n >= q.d THEN CeilUp(q.n + 1, q.d) - 1
                ELSE 0 - CeilUp(q.d, q.n)

\* ceil(log(q) / log(2)) for q > 0
CeilLog2(q) ==
  IF q.n > q.d THEN CeilUp(q.n, q.d) ELSE 0 - FloorDown(q.n, q.d)

\* ceil(log(requested_pixels_per_meters * 2 * semi_major_axis / 256) / log(2))
LogArgument(requested, datum) ==
  RatMul(requested, Rat(2 * datum, AssumedTileSize))

\* (mutant) the transformed image committed to the plate at the fitted level
StoreAfterTransformCommitted(st, level) == Put(st, Key(0, 0, level, 1), Flat)

\* image = holding; txref = TransformRef(geotx): the result leaves through the
\* arguments, m_platefile is not used
StoreAfterTransform(st, level) == st

\* latitudes pixel_to_lonlat returns for a test point
Latitudes == {0 - 45, 0, 45}

\* how many pixels of the image span the width of a level-0 pixel at a test
\* point: half, four, five
Zooms == {Rat(1, 2), Rat(4, 1), Rat(5, 1)}

\* min(norm_2(x_res), norm_2(y_res)) at a test point, in metres
LocalSpacings(datum) ==
  { RatMul(Rat(2 * datum, AssumedTileSize), RatInv(z)) : z \in Zooms }

\* lines 39-51: entry of transform_image
TransformBegin ==
  /\ pm.pc \in {"idle", "placed"}
  /\ pm' = [pm EXCEPT !.pc = "vote", !.i = 0, !.sample = <<>>,
                      !.north_count = 0, !.is_north = FALSE,
                      !.requested = Rat(0, 1), !.level = 0,
                      !.output_georef = <<>>]
  /\ UNCHANGED <<store, pc, args, k, super, new_tile, reads, writes, entry,
                 prev, base, orch, mask>>

\* lines 52-54: one iteration of the vote, north_count is a uint8
Vote(lat) ==
  /\ pm.pc = "vote"
  /\ pm.i < NumTestPoints
  /\ pm' = [pm EXCEPT
              !.i = @ + 1,
              !.sample = Append(@, lat),
              !.north_count = IF IsNorthLat(lat) THEN (@ + 1) % 256 ELSE @]
  /\ UNCHANGED <<store, pc, args, k, super, new_tile, reads, writes, entry,
                 prev, base, orch, mask>>

\* lines 55-69: the pole is decided and the request is seeded
Decide ==
  /\ pm.pc = "vote"
  /\ pm.i = NumTestPoints
  /\ pm' = [pm EXCEPT
              !.pc = "resolve", !.i = 0,
              !.is_north = IsNorth(pm.north_count),
              !.requested = Seed(pm.datum)]
  /\ UNCHANGED <<store, pc, args, k, super, new_tile, reads, writes, entry,
                 prev, base, orch, mask>>

\* lines 70-77: one iteration of the resolution loop; spacing is
\* min(norm_2(x_res), norm_2(y_res)) at the test point
Resolve(spacing) ==
  /\ pm.pc = "resolve"
  /\ pm.i < NumTestPoints
  /\ LET i_resolution == RatInv(spacing)
     IN  pm' = [pm EXCEPT
                  !.i = @ + 1,
                  !.sample = IF pm.i = 0 THEN <<spacing>> ELSE Append(@, spacing),
                  !.requested = IF RatLess(@, i_resolution) THEN i_resolution
                                                             ELSE @]
  /\ UNCHANGED <<store, pc, args, k, super, new_tile, reads, writes, entry,
                 prev, base, orch, mask>>

\* lines 79-100: the level is fitted, the descriptor built, the image handed back
Fit ==
  /\ pm.pc = "resolve"
  /\ pm.i = NumTestPoints
  /\ LET level == CeilLog2(LogArgument(pm.requested, pm.datum))
         output_georef == georeference(level, pm.is_north, pm.datum)
     IN  /\ pm' = [pm EXCEPT
                     !.pc = "placed",
                     !.level = level,
                     !.output_georef = <<output_georef>>,
                     !.first = IF @ = 0 THEN output_georef.pole ELSE @,
                     !.poles = @ \cup {output_georef.pole}]
         /\ store' = StoreAfterTransform(store, level)
  /\ UNCHANGED <<pc, args, k, super, new_tile, reads, writes, entry,
                 prev, base, orch, mask>>

NextPlace ==
  \/ TransformBegin
  \/ \E lat \in Latitudes : Vote(lat)
  \/ Decide
  \/ \E spacing \in LocalSpacings(pm.datum) : Resolve(spacing)
  \/ Fit

InitPlace == InitManager({AssumedTileSize})

SpecPlace == InitPlace /\ [][NextPlace]_vars

\* C12: every placement into one plate uses the pole of the first placement:
\* no state holds both a north-pole and a south-pole placement.
C12_OnePolePerPyramid ==
  /\ Cardinality(pm.poles) <= 1
  /\ pm.pc = "placed" => pm.output_georef[1].pole = pm.first

\* the test points with a latitude above the equator
NorthSamples(lats) == { n \in 1 .. Len(lats) : lats[n] > 0 }

\* C15: the pole is north exactly when strictly more than two of the five
\* test points have a latitude above zero; a latitude of zero counts as not
\* north.
C15_NorthByStrictMajority ==
  pm.pc = "resolve" /\ pm.i = 0
    => /\ Len(pm.sample) = NumTestPoints
       /\ pm.is_north <=> Cardinality(NorthSamples(pm.sample)) > 2
       /\ pm.is_north <=> 2 * Cardinality(NorthSamples(pm.sample)) > NumTestPoints

\* C15 witness: two test points north, two on the equator, one south: the
\* pole is south.
C15_Witness ==
  /\ pm.pc = "resolve"
  /\ pm.i = 0
  /\ Cardinality(NorthSamples(pm.sample)) = 2
  /\ Cardinality({ n \in 1 .. Len(pm.sample) : pm.sample[n] = 0 }) = 2
  /\ ~pm.is_north

\* the spacing no sample and no level-0 pixel may be finer than
Required(spacings, datum) ==
  LET level0 == RatInv(Seed(datum))
      finest == CHOOSE s \in spacings : \A t \in spacings : RatLeq(s, t)
  IN  IF RatLess(finest, level0) THEN finest ELSE level0

C18_PlacementLeavesStore == store = base

\* C18 witness: a placement is complete next to a store that holds a tile.
C18_Witness ==
  /\ pm.pc = "placed"
  /\ pm.level > 0
  /\ store # <<>>

\* ---------------------------------------------------------------- PixelMask
\* PixelMask<PixelGray<uint8> > v(x): test[0] == x, test[1] == 255
MaskOf(x) == [v |-> x, valid |-> ChannelMax]

\* is_transparent(v) for a PixelMask
IsTransparentMask(p) == p.valid = 0

\* v.invalidate()
Invalidated(p) == [p EXCEPT !.valid = 0]

\* v.validate()
Validated(p) == [p EXCEPT !.valid = ChannelMax]

\* (mutant) a sum that is valid as soon as one operand is
MaskAddEither(p, q) ==
  [v |-> (p.v + q.v) % (ChannelMax + 1),
   valid |-> IF p.valid # 0 \/ q.valid # 0 THEN ChannelMax ELSE 0]

\* v1 + v2: the channel values are added in uint8 whatever the validity,
\* the sum is valid only if both operands are
MaskAdd(p, q) ==
  [v |-> (p.v + q.v) % (ChannelMax + 1),
   valid |-> IF p.valid # 0 /\ q.valid # 0 THEN ChannelMax ELSE 0]

\* channel values the pixels are constructed from
MaskValues == {5, 6, 23, 200}

InitMask ==
  /\ store = <<>>
  /\ pc = [w \in Workers |-> "idle"]
  /\ args = [w \in Workers |-> NoArgs]
  /\ k = [w \in Workers |-> 0]
  /\ super = [w \in Workers |-> BlankCanvas]
  /\ new_tile = [w \in Workers |-> <<>>]
  /\ reads = [w \in Workers |-> <<>>]
  /\ writes = [w \in Workers |-> 0]
  /\ entry = [w \in Workers |-> <<>>]
  /\ prev = [w \in Workers |-> <<>>]
  /\ base = store
  /\ orch = NoOrch
  /\ pm = NoCall
  /\ mask = NoMask

\* every step of the pixel tests leaves the plate manager alone
MaskFrame ==
  UNCHANGED <<store, pc, args, k, super, new_tile, reads, writes, entry,
              prev, base, orch, pm>>

\* PixelMask<PixelGray<uint8> > v1(x); PixelMask<PixelGray<uint8> > v2(y);
Construct(x, y) ==
  /\ mask' = [v1 |-> MaskOf(x), v2 |-> MaskOf(y), test |-> <<>>,
              op |-> "construct", old |-> <<>>]
  /\ MaskFrame

\* v1.invalidate() or v2.invalidate()
Invalidate(which) ==
  /\ mask.op # "none"
  /\ mask' = [mask EXCEPT
                ![which] = Invalidated(@),
                !.test = <<>>,
                !.op = "invalidate",
                !.old = <<mask.v1, mask.v2>>]
  /\ MaskFrame

\* v1.validate() or v2.validate()
Validate(which) ==
  /\ mask.op # "none"
  /\ mask' = [mask EXCEPT
                ![which] = Validated(@),
                !.test = <<>>,
                !.op = "validate",
                !.old = <<mask.v1, mask.v2>>]
  /\ MaskFrame

\* PixelMask<PixelGray<uint8> > test = v1 + v2;
Add ==
  /\ mask.op # "none"
  /\ mask' = [mask EXCEPT
                !.test = <<MaskAdd(mask.v1, mask.v2)>>,
                !.op = "add",
                !.old = <<mask.v1, mask.v2>>]
  /\ MaskFrame

NextMask ==
  \/ \E x \in MaskValues, y \in MaskValues : Construct(x, y)
  \/ \E which \in {"v1", "v2"} : Invalidate(which)
  \/ \E which \in {"v1", "v2"} : Validate(which)
  \/ Add

SpecMask == InitMask /\ [][NextMask]_vars

C21_SuppressionNeverDeletes ==
  \A w \in Workers :
    /\ pc[w] = "done"
    /\ WhollyInvalid(new_tile[w][1])
    /\ <<args[w].col, args[w].row, args[w].level, args[w].tid>> \in DOMAIN entry[w]
    => /\ <<args[w].col, args[w].row, args[w].level, args[w].tid>> \in DOMAIN store
       /\ store[<<args[w].col, args[w].row, args[w].level, args[w].tid>>]
            = entry[w][<<args[w].col, args[w].row, args[w].level, args[w].tid>>]
       /\ store = entry[w]
       /\ writes[w] = 0

\* C21 witness: a parent was stored before the call, the call computed a
\* wholly invalid tile from the children now present and wrote nothing: the
\* stored parent is not the reduction of its children.
C21_Witness ==
  \E w \in Workers :
    /\ pc[w] = "done"
    /\ writes[w] = 0
    /\ WhollyInvalid(new_tile[w][1])
    /\ TargetKey(args[w]) \in DOMAIN entry[w]
    /\ TargetKey(args[w]) \in DOMAIN store
    /\ store[TargetKey(args[w])]
         # Reduce(KidsCanvas(store, TargetKey(args[w])), args[w].preblur)
    /\ ~WhollyInvalid(store[TargetKey(args[w])])

====
